---- MODULE Spec2Model ----
(***************************************************************************)
(* Model of streamlit_app.py: the Maui itinerary planner.                  *)
(*                                                                         *)
(* One Streamlit session is modelled.  Every user interaction re-executes  *)
(* the script top to bottom; the session state (dynamic_questions,         *)
(* cached_search_data, itinerary_text) survives between executions.  The   *)
(* replies of the language-model service and of the search service are     *)
(* inputs, drawn from small sets that cover every shape the code           *)
(* distinguishes (exception, non-JSON text, JSON of the wrong shape, ...).  *)
(*                                                                         *)
(* Strings the code strips or concatenates are sequences of tokens, where  *)
(* the token " " is whitespace.  A Python exception that leaves a function *)
(* is the field raised = TRUE of the function's result.                    *)
(***************************************************************************)
EXTENDS Naturals, Integers, Sequences, FiniteSets, TLC

\* ------------------------------------------------------------------------
\* Bounds of the model
\* ------------------------------------------------------------------------
\* Longest search_queries list the language model proposes.
MaxQueries == 2

\* ------------------------------------------------------------------------
\* Program constants
\* ------------------------------------------------------------------------
\* fetch_serpapi_data(query, location, retries=3)
Retries == 3
\* org_items = data["organic_results"][:3], local_items = ...[:3]
TopItems == 3
\* len(q_list) != 3
NumQuestions == 3

\* ------------------------------------------------------------------------
\* Strings
\* ------------------------------------------------------------------------
RECURSIVE LStrip(_)
LStrip(s) == IF s # <<>> /\ Head(s) = " " THEN LStrip(Tail(s)) ELSE s

RECURSIVE RStrip(_)
RStrip(s) ==
    IF s # <<>> /\ s[Len(s)] = " " THEN RStrip(SubSeq(s, 1, Len(s) - 1)) ELSE s

\* str.strip()
Strip(s) == RStrip(LStrip(s))

DigitChar == <<"0", "1", "2", "3", "4", "5", "6", "7", "8", "9">>

\* str(date) for a day d of March 2025: "2025-03-dd"
DateStr(d) ==
    <<"2025", "-", "03", "-", DigitChar[(d \div 10) + 1], DigitChar[(d % 10) + 1]>>

\* ------------------------------------------------------------------------
\* get_questions
\* ------------------------------------------------------------------------
HotelQuestion == "Which hotel are you staying at?"

FallbackQuestions ==
    << "What excites you most about traveling there?",
       "What sort of dining do you enjoy?",
       "Do you have any must-do activities (like hiking or snorkeling)?",
       HotelQuestion >>

\* Replies of the language model to the question prompt.
\*   exc          the call raises (transport error)
\*   nonjson      the content is not valid JSON: json.loads raises
\*   json_nonlist valid JSON that is not a list
\*   json_list    a JSON list, items are its elements
QuestionReplies ==
    { [k |-> "exc", items |-> <<>>],
      [k |-> "nonjson", items |-> <<>>],
      [k |-> "json_nonlist", items |-> <<>>],
      [k |-> "json_list", items |-> <<"Q1", "Q2">>],
      [k |-> "json_list", items |-> <<"Q1", "Q2", "Q3">>],
      [k |-> "json_list", items |-> <<"Q1", "Q2", "Q3", "Q4">>] }

\* The body of the try block, lines 36-51.
QuestionsTry(reply) ==
    IF reply.k # "json_list" \/ Len(reply.items) # NumQuestions
    THEN [raised |-> TRUE, value |-> <<>>]
    ELSE [raised |-> FALSE, value |-> Append(reply.items, HotelQuestion)]

\* Variant: the length of the list is not validated.
get_questions_NoLengthCheck(reply) ==
    IF reply.k = "json_list"
    THEN [raised |-> FALSE, value |-> Append(reply.items, HotelQuestion), lm |-> 1]
    ELSE [raised |-> FALSE, value |-> FallbackQuestions, lm |-> 1]

\* try ... except: return the fallback.  lm counts the language-model calls.
get_questions(reply) ==
    LET t == QuestionsTry(reply) IN
    IF t.raised
    THEN [raised |-> FALSE, value |-> FallbackQuestions, lm |-> 1]
    ELSE [raised |-> FALSE, value |-> t.value, lm |-> 1]

\* ------------------------------------------------------------------------
\* Search-service results
\* ------------------------------------------------------------------------
\* A field of a result object: absent, a well-formed value holding n items,
\* or a value of an unexpected shape.
Absent == [k |-> "absent", n |-> 0]
Items(n) == [k |-> "items", n |-> n]
BadShape == [k |-> "bad", n |-> 0]

\* {}
EmptyResult == [t |-> "dict", org |-> Absent, loc |-> Absent]
\* organic_results: 4 items; local_results: {places: 2 items}
BodyOK == [t |-> "dict", org |-> Items(4), loc |-> Items(2)]
\* organic_results is not a list of objects
BodyBadOrganic == [t |-> "dict", org |-> BadShape, loc |-> Absent]

Bodies == {BodyOK, BodyBadOrganic}

\* Outcome of one requests.get:
\*   exc         the request raises
\*   non200      a response whose status is not 200
\*   ok_nonjson  status 200, resp.json() raises
\*   ok          status 200, resp.json() returns body
AttemptOutcomes ==
    { [k |-> "exc", body |-> EmptyResult],
      [k |-> "non200", body |-> EmptyResult],
      [k |-> "ok_nonjson", body |-> EmptyResult] }
    \cup { [k |-> "ok", body |-> b] : b \in Bodies }

RECURSIVE SeqsUpTo(_, _)
SeqsUpTo(S, n) ==
    IF n = 0 THEN {<<>>}
    ELSE LET shorter == SeqsUpTo(S, n - 1) IN
         shorter \cup {Append(s, x) : s \in shorter, x \in S}

\* What the search service does during one fetch_serpapi_data call: the
\* outcomes of the requests in order, up to the first usable response or
\* to the last attempt.
Scripts ==
    { s \in SeqsUpTo(AttemptOutcomes, Retries) :
        /\ s # <<>>
        /\ \A a \in 1..(Len(s) - 1) : s[a].k # "ok"
        /\ Len(s) < Retries => s[Len(s)].k = "ok" }

\* The loop of lines 135-143 from attempt number a on, after sl sleeps.
\* requests counts the requests.get calls, sleeps the time.sleep calls;
\* exhausted tells that line 143 was reached.
RECURSIVE FetchLoop(_, _, _)
FetchLoop(script, a, sl) ==
    IF a > Retries
    THEN [result |-> EmptyResult, requests |-> Retries, sleeps |-> sl,
          exhausted |-> TRUE]
    ELSE LET o == script[a] IN
         IF o.k = "ok"
         THEN [result |-> o.body, requests |-> a, sleeps |-> sl,
               exhausted |-> FALSE]
         ELSE FetchLoop(script, a + 1, sl + 1)

fetch_serpapi_data(serpapiKey, script) ==
    IF ~serpapiKey
    THEN [result |-> EmptyResult, requests |-> 0, sleeps |-> 0,
          exhausted |-> FALSE]
    ELSE FetchLoop(script, 1, 0)

\* ------------------------------------------------------------------------
\* Search queries
\* ------------------------------------------------------------------------
\* An element of the search_queries list: a string, or a JSON array (which
\* Python cannot use as a dict key).
QStr(s) == [t |-> "str", v |-> s]
QUnhashable == [t |-> "list", v |-> <<>>]

Hashable(q) == q.t = "str"

QueryElems == {QStr(<<"beaches">>), QUnhashable}

\* Lines 98-102.
FallbackQueries(location) ==
    << QStr(<<"Dining", " ", "in", " ">> \o location),
       QStr(<<"Must-see", " ", "events", " ", "in", " ">> \o location),
       QStr(<<"Fun", " ", "outdoor", " ", "activities", " ", "in", " ">> \o location) >>

\* The value of the search_queries key of the reply object.
\*   absent  no such key: data.get returns []
\*   scalar  a number or null: not iterable
\*   list    a JSON list
SearchQueriesValues ==
    { [k |-> "absent", items |-> <<>>], [k |-> "scalar", items |-> <<>>] }
    \cup { [k |-> "list", items |-> l] : l \in SeqsUpTo(QueryElems, MaxQueries) }

\* Replies of the language model to the query-proposal prompt.
\*   exc            the call raises
\*   nonjson        json.loads raises
\*   json_nonobject valid JSON that is not an object: data.get raises
\*   object         a JSON object, sq is its search_queries value
ProposalReplies ==
    { [k |-> f, sq |-> [k |-> "absent", items |-> <<>>]] :
         f \in {"exc", "nonjson", "json_nonobject"} }
    \cup { [k |-> "object", sq |-> v] : v \in SearchQueriesValues }

\* Lines 83-102: the value of queries.  iterable = FALSE when the for loop
\* of lines 107/110 raises TypeError on it.
ProposeQueries(location, reply) ==
    IF reply.k # "object"
    THEN [iterable |-> TRUE, list |-> FallbackQueries(location)]
    ELSE IF reply.sq.k = "scalar"
    THEN [iterable |-> FALSE, list |-> <<>>]
    ELSE [iterable |-> TRUE, list |-> reply.sq.items]

\* results[q] = r
Put(results, q, r) ==
    [x \in DOMAIN results \cup {q} |-> IF x = q THEN r ELSE results[x]]

EmptyDict == [x \in {} |-> EmptyResult]

\* results_dict.get(q, {})
GetResult(results, q) == IF q \in DOMAIN results THEN results[q] ELSE EmptyResult

\* ------------------------------------------------------------------------
\* gather_rag_data
\* ------------------------------------------------------------------------
Min(a, b) == IF a < b THEN a ELSE b

\* The bullet lines of one result object: up to 3 organic, then up to 3 local.
LinesOf(q, data) ==
    [j \in 1..(Min(data.org.n, TopItems) + Min(data.loc.n, TopItems)) |->
        IF j <= Min(data.org.n, TopItems)
        THEN [kind |-> "Title", q |-> q, item |-> j]
        ELSE [kind |-> "Local", q |-> q, item |-> j - Min(data.org.n, TopItems)]]

\* Slicing or .get on a value of an unexpected shape raises.
ShapeRaises(data) == data.org.k = "bad" \/ data.loc.k = "bad"

\* The loop of lines 159-192 from query number i on.
RECURSIVE RagLoop(_, _, _, _)
RagLoop(queries, results, i, lines) ==
    IF i > Len(queries)
    THEN [raised |-> FALSE, lines |-> lines]
    ELSE LET data == GetResult(results, queries[i]) IN
         IF ShapeRaises(data)
         THEN [raised |-> TRUE, lines |-> <<>>]
         ELSE RagLoop(queries, results, i + 1, lines \o LinesOf(queries[i], data))

\* nodata = TRUE stands for the text "(No extra data found.)".
gather_rag_data(all_search_data) ==
    IF all_search_data.search_queries = <<>>
    THEN [raised |-> FALSE, nodata |-> TRUE, lines |-> <<>>]
    ELSE LET r == RagLoop(all_search_data.search_queries,
                          all_search_data.search_results, 1, <<>>) IN
         [raised |-> r.raised, nodata |-> ~r.raised /\ r.lines = <<>>,
          lines |-> r.lines]

\* ------------------------------------------------------------------------
\* generate_itinerary
\* ------------------------------------------------------------------------
\* Replies of the language model to the itinerary prompt.
\*   exc   the call raises
\*   none  the message content is None: .strip() raises
\*   text  the content
ItineraryReplies ==
    { [k |-> "exc", text |-> <<>>],
      [k |-> "none", text |-> <<>>],
      [k |-> "text", text |-> <<"PlanA">>],
      [k |-> "text", text |-> <<" ", "PlanB", " ">>] }

None == [some |-> FALSE, text |-> <<>>]
Some(t) == [some |-> TRUE, text |-> t]

\* lm counts the language-model calls made.
generate_itinerary(all_search_data, reply) ==
    LET rag == gather_rag_data(all_search_data) IN
    IF rag.raised
    THEN [raised |-> TRUE, value |-> None, lm |-> 0]
    ELSE IF reply.k = "text"
    THEN [raised |-> FALSE, value |-> Some(Strip(reply.text)), lm |-> 1]
    ELSE [raised |-> FALSE, value |-> None, lm |-> 1]

\* ------------------------------------------------------------------------
\* User inputs
\* ------------------------------------------------------------------------
\* The four text inputs of the form, as typed.
AnswerInputs ==
    { << <<"surf">>, <<"poke">>, <<"hike">>, <<"Hyatt">> >>,
      << <<" ", "surf">>, <<"poke", " ">>, <<"hike">>, <<"Hyatt">> >>,
      << <<"golf">>, <<"poke">>, <<"hike">>, <<"Hyatt">> >> }

\* Days of March 2025 offered by the two date inputs.
StartDays == {5, 10}
EndDays == {5}

LocationInputs == { <<"Maui">>, <<"Maui", " ">> }

\* Lines 286-294.
user_ans_tuple(ans, start, end, loc) ==
    << Strip(ans[1]), Strip(ans[2]), Strip(ans[3]), Strip(ans[4]),
       DateStr(start), DateStr(end), Strip(loc) >>

Keys ==
    { user_ans_tuple(a, s, e, l) :
        a \in AnswerInputs, s \in StartDays, e \in EndDays, l \in LocationInputs }

\* ------------------------------------------------------------------------
\* State
\* ------------------------------------------------------------------------
VARIABLES
    SERPAPI_KEY,          \* whether a search-service credential is configured
    dynamic_questions,    \* st.session_state.dynamic_questions
    cached_search_data,   \* st.session_state.cached_search_data
    itinerary_text,       \* st.session_state.itinerary_text
    pc,                   \* position of the current script execution
    cur,                  \* locals of hidden_search_for_more_ideas
    run,                  \* what the current script execution has done
    lastFetch,            \* the fetch_serpapi_data call that has just returned
    proposed              \* keys hidden_search_for_more_ideas was started for

vars == << SERPAPI_KEY, dynamic_questions, cached_search_data, itinerary_text,
           pc, cur, run, lastFetch, proposed >>

NoReply == [k |-> "nocall", items |-> <<>>]

NoCur ==
    [key |-> <<>>, location |-> <<>>, queries |-> <<>>, i |-> 0,
     results |-> EmptyDict]

NoFetch ==
    [called |-> FALSE, q |-> QStr(<<>>), requests |-> 0, sleeps |-> 0,
     exhausted |-> FALSE, result |-> EmptyResult]

\* submitted   plan_btn was pressed
\* dates       the start and end day submitted
\* rejected    the date check failed (line 284)
\* hit         the key was found in cached_search_data (line 297)
\* repeat      hidden_search_for_more_ideas had been started for the key before
\* propose     query-proposal calls to the language model
\* searched    a request was sent to the search service
\* slept       time.sleep was called
\* composer    invocations of generate_itinerary
\* composeLM   itinerary calls to the language model
\* qcalls      question calls to the language model
\* qreply      the reply get_questions received
\* hsReturned  hidden_search_for_more_ideas returned (line 113)
\* raisedIn    the function an uncaught exception escaped from
\* gen         the value generate_itinerary returned
FreshRun ==
    [submitted |-> FALSE, dates |-> <<0, 0>>, rejected |-> FALSE, hit |-> FALSE, repeat |-> FALSE,
     propose |-> 0, searched |-> FALSE, slept |-> FALSE, composer |-> 0,
     composeLM |-> 0,
     qcalls |-> 0, qreply |-> NoReply, hsReturned |-> FALSE,
     raisedIn |-> "none", gen |-> None]

Unset == [set |-> FALSE, v |-> <<>>]

\* The session before the first script execution.  cached_search_data and
\* itinerary_text hold the values lines 249-253 give them.
Init ==
    /\ SERPAPI_KEY \in BOOLEAN
    /\ dynamic_questions = Unset
    /\ cached_search_data = [x \in {} |-> 0]
    /\ itinerary_text = None
    /\ pc = "idle"
    /\ cur = NoCur
    /\ run = FreshRun
    /\ lastFetch = NoFetch
    /\ proposed = {}

\* Variant: get_questions is called on every execution.
SessionInit_Always(dq, reply) ==
    [dq |-> [set |-> TRUE, v |-> get_questions(reply).value],
     lm |-> get_questions(reply).lm,
     reply |-> reply]

\* Lines 246-247: if "dynamic_questions" not in st.session_state.
SessionInit(dq, reply) ==
    IF dq.set
    THEN [dq |-> dq, lm |-> 0, reply |-> NoReply]
    ELSE [dq |-> [set |-> TRUE, v |-> get_questions(reply).value],
          lm |-> get_questions(reply).lm,
          reply |-> reply]

\* A script execution without a submit: the first page load, or a rerun
\* caused by a widget outside the form.
RunNoSubmit(qr) ==
    /\ pc = "idle"
    /\ LET si == SessionInit(dynamic_questions, qr) IN
       /\ dynamic_questions' = si.dq
       /\ run' = [FreshRun EXCEPT !.qcalls = si.lm, !.qreply = si.reply]
    /\ pc' = "display"
    /\ UNCHANGED << SERPAPI_KEY, cached_search_data, itinerary_text, cur,
                    lastFetch, proposed >>

\* Variant: the date check is missing.
DateRejected_Never(start, end) == FALSE

\* Line 283: if start_date_val > end_date_val.
DateRejected(start, end) == start > end

\* Line 297, negated: user_ans_tuple in st.session_state.cached_search_data.
CacheHit(key, cache) == key \in DOMAIN cache

\* A script execution with plan_btn pressed, lines 246-305 up to the first
\* search-service fetch.  The form exists only once the script has run, so
\* dynamic_questions is set and line 247 consumes no reply.
SubmitBegin(ans, start, end, loc, reply) ==
    /\ pc = "idle"
    /\ dynamic_questions.set
    /\ LET si == SessionInit(dynamic_questions, NoReply)
           key == user_ans_tuple(ans, start, end, loc)
           location == Strip(loc)
           pq == ProposeQueries(location, reply)
           r0 == [FreshRun EXCEPT !.submitted = TRUE, !.dates = <<start, end>>,
                                  !.qcalls = si.lm, !.qreply = si.reply]
           r1 == [r0 EXCEPT !.propose = 1, !.repeat = key \in proposed]
       IN
       /\ dynamic_questions' = si.dq
       /\ IF DateRejected(start, end)
          THEN /\ run' = [r0 EXCEPT !.rejected = TRUE]
               /\ pc' = "display"
               /\ UNCHANGED << cached_search_data, cur, proposed >>
          ELSE IF CacheHit(key, cached_search_data)
          THEN /\ run' = [r0 EXCEPT !.hit = TRUE]
               /\ cur' = [NoCur EXCEPT !.key = key, !.location = location]
               /\ pc' = "compose"
               /\ UNCHANGED << cached_search_data, proposed >>
          ELSE /\ proposed' = proposed \cup {key}
               /\ IF ~pq.iterable
                  THEN /\ run' = [r1 EXCEPT !.raisedIn = "hidden_search"]
                       /\ cur' = [NoCur EXCEPT !.key = key, !.location = location]
                       /\ pc' = "crashed"
                       /\ UNCHANGED cached_search_data
                  ELSE IF pq.list = <<>>
                  THEN /\ run' = [r1 EXCEPT !.hsReturned = TRUE]
                       /\ cur' = [NoCur EXCEPT !.key = key, !.location = location]
                       /\ cached_search_data' =
                             Put(cached_search_data, key,
                                 [search_queries |-> <<>>,
                                  search_results |-> EmptyDict])
                       /\ pc' = "compose"
                  ELSE /\ run' = r1
                       /\ cur' = [key |-> key, location |-> location,
                                  queries |-> pq.list, i |-> 1,
                                  results |-> EmptyDict]
                       /\ pc' = "fetch"
                       /\ UNCHANGED cached_search_data
    /\ UNCHANGED << SERPAPI_KEY, itinerary_text, lastFetch >>

\* One iteration of the loop of lines 107-108 (or 110-111), and after the
\* last one the return of lines 113-116 and the store of line 305.
FetchQuery(script) ==
    /\ pc = "fetch"
    /\ LET q == cur.queries[cur.i]
           f == IF SERPAPI_KEY
                THEN fetch_serpapi_data(SERPAPI_KEY, script)
                ELSE [result |-> EmptyResult, requests |-> 0, sleeps |-> 0,
                      exhausted |-> FALSE]
           results == Put(cur.results, q, f.result)
           r1 == [run EXCEPT !.searched = @ \/ f.requests > 0,
                             !.slept = @ \/ f.sleeps > 0]
       IN
       /\ lastFetch' = [called |-> SERPAPI_KEY, q |-> q,
                        requests |-> f.requests, sleeps |-> f.sleeps,
                        exhausted |-> f.exhausted, result |-> f.result]
       /\ IF ~Hashable(q)
          THEN /\ run' = [r1 EXCEPT !.raisedIn = "hidden_search"]
               /\ pc' = "crashed"
               /\ UNCHANGED << cur, cached_search_data >>
          ELSE IF cur.i = Len(cur.queries)
          THEN /\ run' = [r1 EXCEPT !.hsReturned = TRUE]
               /\ cur' = [cur EXCEPT !.results = results]
               /\ cached_search_data' =
                     Put(cached_search_data, cur.key,
                         [search_queries |-> cur.queries,
                          search_results |-> results])
               /\ pc' = "compose"
          ELSE /\ run' = r1
               /\ cur' = [cur EXCEPT !.results = results, !.i = @ + 1]
               /\ UNCHANGED << cached_search_data, pc >>
    /\ UNCHANGED << SERPAPI_KEY, dynamic_questions, itinerary_text, proposed >>

\* Variant: the result is stored without the None check.
StoreItinerary_Unchecked(old, new_itinerary) == new_itinerary

\* Lines 316-319: if new_itinerary is None ... else itinerary_text = it.
StoreItinerary(old, new_itinerary) ==
    IF ~new_itinerary.some THEN old ELSE new_itinerary

\* Lines 307-320.
Compose(reply) ==
    /\ pc = "compose"
    /\ LET g == generate_itinerary(cached_search_data[cur.key], reply) IN
       /\ run' = [run EXCEPT !.composer = @ + 1, !.composeLM = g.lm,
                             !.gen = g.value,
                             !.raisedIn = IF g.raised THEN "generate_itinerary"
                                          ELSE @]
       /\ itinerary_text' = IF g.raised THEN itinerary_text
                            ELSE StoreItinerary(itinerary_text, g.value)
       /\ pc' = IF g.raised THEN "crashed" ELSE "display"
    /\ lastFetch' = NoFetch
    /\ UNCHANGED << SERPAPI_KEY, dynamic_questions, cached_search_data, cur,
                    proposed >>

\* Line 325: if st.session_state.itinerary_text.  The value rendered by
\* line 328, None when nothing is rendered.
Displayed(it) == IF it.some /\ it.text # <<>> THEN it ELSE None

\* Lines 325-341: the stored itinerary is rendered and the script execution
\* ends; only the session state survives.
Display ==
    /\ pc = "display"
    /\ pc' = "idle"
    /\ cur' = NoCur
    /\ run' = FreshRun
    /\ lastFetch' = NoFetch
    /\ UNCHANGED << SERPAPI_KEY, dynamic_questions, cached_search_data,
                    itinerary_text, proposed >>

\* An uncaught exception stops the script execution; the session state
\* survives.
Abort ==
    /\ pc = "crashed"
    /\ pc' = "idle"
    /\ cur' = NoCur
    /\ run' = FreshRun
    /\ lastFetch' = NoFetch
    /\ UNCHANGED << SERPAPI_KEY, dynamic_questions, cached_search_data,
                    itinerary_text, proposed >>

Next ==
    \/ \E qr \in QuestionReplies : RunNoSubmit(qr)
    \/ \E ans \in AnswerInputs, start \in StartDays, end \in EndDays,
          loc \in LocationInputs, reply \in ProposalReplies :
          SubmitBegin(ans, start, end, loc, reply)
    \/ \E script \in Scripts : FetchQuery(script)
    \/ \E reply \in ItineraryReplies : Compose(reply)
    \/ Display
    \/ Abort

Spec == Init /\ [][Next]_vars

\* ------------------------------------------------------------------------
\* Properties
\* ------------------------------------------------------------------------
\* The script execution has done all its work.
RunEnded == pc \in {"display", "crashed"}

\* A reply get_questions cannot use: exception, invalid JSON, not a list,
\* a list whose length is not 3.
QuestionFailure(reply) ==
    \/ reply.k \in {"exc", "nonjson", "json_nonlist"}
    \/ reply.k = "json_list" /\ Len(reply.items) # 3

\* C1, as stated: after any language-model failure during question
\* generation get_questions has not raised and has returned the fixed
\* fallback sequence, which has exactly 3 elements.
C1_Original ==
    (run.qreply.k # "nocall" /\ QuestionFailure(run.qreply)) =>
        /\ pc # "crashed"
        /\ dynamic_questions.set
        /\ dynamic_questions.v = FallbackQuestions
        /\ Len(dynamic_questions.v) = 3

\* C1, amended: after any language-model failure during question generation
\* get_questions has not raised and has returned the fixed fallback
\* sequence, which has exactly 4 elements: three questions and the hotel
\* question.
C1_Amended ==
    (run.qreply.k # "nocall" /\ QuestionFailure(run.qreply)) =>
        /\ pc # "crashed"
        /\ dynamic_questions.set
        /\ dynamic_questions.v = FallbackQuestions
        /\ Len(dynamic_questions.v) = 4
        /\ dynamic_questions.v[4] = HotelQuestion

C1_Witness ==
    /\ pc = "display"
    /\ run.qreply.k = "json_list"
    /\ Len(run.qreply.items) = 2
    /\ dynamic_questions.v = FallbackQuestions

\* C2: hidden_search_for_more_ideas runs at most once per input combination:
\* no script execution makes the query-proposal call for a key the function
\* was already started for, and an execution that finds the key in the cache
\* makes no query-proposal call and no search-service request.
C2_Claim ==
    /\ run.propose > 0 => ~run.repeat
    /\ run.hit => run.propose = 0 /\ ~run.searched

\* C3: a submit action that passes the date check invokes generate_itinerary
\* exactly once, on a cache hit as on a cache miss.
C3_Claim ==
    (RunEnded /\ run.submitted /\ ~run.rejected) => run.composer = 1

\* C4: a submit whose start date is after its end date makes no
\* language-model call and no search-service call, adds no entry to
\* cached_search_data, and goes straight to the display of the page.
C4_RejectedBeforeAnyCall ==
    [][ (pc = "idle" /\ run'.submitted /\ run'.dates[1] > run'.dates[2]) =>
           /\ pc' = "display"
           /\ run'.rejected
           /\ run'.qcalls = 0 /\ run'.propose = 0
           /\ run'.composer = 0 /\ run'.composeLM = 0
           /\ ~run'.searched /\ ~run'.slept
           /\ cached_search_data' = cached_search_data
           /\ proposed' = proposed
           /\ itinerary_text' = itinerary_text ]_vars

C4_Witness ==
    /\ pc = "display"
    /\ run.submitted
    /\ run.dates = <<10, 5>>
    /\ run.rejected
    /\ run.propose = 0

\* C5: when every attempt of a fetch_serpapi_data call has failed, the call
\* has returned the empty result object, no exception has left
\* hidden_search_for_more_ideas, and the mapping the function builds and
\* returns has the empty entry for that query.
C5_Claim ==
    (lastFetch.called /\ lastFetch.exhausted) =>
        /\ lastFetch.result = EmptyResult
        /\ pc # "crashed"
        /\ pc = "fetch" =>
              /\ lastFetch.q \in DOMAIN cur.results
              /\ cur.results[lastFetch.q] = EmptyResult
        /\ pc = "compose" =>
              /\ run.hsReturned
              /\ cur.key \in DOMAIN cached_search_data
              /\ lastFetch.q \in DOMAIN cached_search_data[cur.key].search_results
              /\ cached_search_data[cur.key].search_results[lastFetch.q] = EmptyResult

\* C6: without a search-service credential an accepted submit sends no
\* request to the search service and never sleeps, every query of the
\* mapping it builds has the empty result, and the query-proposal step (on
\* a cache miss) and the itinerary composition still run.
C6_Claim ==
    (~SERPAPI_KEY /\ RunEnded /\ run.submitted /\ ~run.rejected) =>
        /\ ~run.searched /\ ~run.slept
        /\ ~run.hit => run.propose = 1 /\ run.hsReturned
        /\ run.composer = 1
        /\ cur.key \in DOMAIN cached_search_data
        /\ \A q \in DOMAIN cached_search_data[cur.key].search_results :
              cached_search_data[cur.key].search_results[q] = EmptyResult

\* C7: no uncaught exception leaves hidden_search_for_more_ideas,
\* gather_rag_data or generate_itinerary, whatever the two services reply.
C7_Claim == pc # "crashed" /\ run.raisedIn = "none"

\* C8: get_questions is called by the first script execution only, with a
\* single language-model call; once dynamic_questions is stored, no later
\* execution calls the language model for questions or changes the list.
C8_QuestionsOncePerSession ==
    [][ /\ dynamic_questions.set =>
              /\ dynamic_questions' = dynamic_questions
              /\ run'.qcalls = 0
        /\ (~dynamic_questions.set /\ pc = "idle" /\ pc' # "idle") =>
              /\ dynamic_questions'.set
              /\ run'.qcalls = 1 ]_vars

C8_Witness ==
    /\ pc = "display"
    /\ run.submitted
    /\ run.composer = 1
    /\ run.qcalls = 0
    /\ dynamic_questions.set

\* C9: a fetch_serpapi_data call sends at most 3 requests, returns the body
\* of the 200 response it stops at, and sleeps only between attempts: one
\* sleep less than requests.
C9_Claim ==
    lastFetch.called =>
        /\ lastFetch.requests >= 1 /\ lastFetch.requests <= 3
        /\ ~lastFetch.exhausted => lastFetch.result \in Bodies
        /\ lastFetch.exhausted => lastFetch.requests = 3
        /\ lastFetch.sleeps = lastFetch.requests - 1

\* C10: itinerary_text changes only in the step that calls
\* generate_itinerary, only when the call returns a value that is not None,
\* and then to that value; a rejected submit, a None result or an exception
\* leave it as it was, and the composition step keeps the cache entry of
\* the submitted inputs.
C10_ItineraryKeptUnlessNew ==
    [][ /\ itinerary_text' # itinerary_text =>
              /\ pc = "compose" /\ pc' = "display"
              /\ run'.gen.some
              /\ itinerary_text' = run'.gen
        /\ pc = "compose" =>
              /\ cached_search_data' = cached_search_data
              /\ cur.key \in DOMAIN cached_search_data' ]_vars

C10_Witness ==
    /\ pc = "display"
    /\ run.submitted /\ ~run.hit /\ run.hsReturned
    /\ run.composer = 1 /\ ~run.gen.some
    /\ cur.key \in DOMAIN cached_search_data
    /\ itinerary_text.some
    /\ Displayed(itinerary_text) = itinerary_text

====
